---- MODULE Spec2Model ----
(***************************************************************************)
(* Model of migrate_levels.py: the one-shot migration of a legacy JSON     *)
(* levels document into the SQLite tables user_profiles and daily_goals.   *)
(*                                                                         *)
(* JSON values are tagged records, dict keys that the code coerces with    *)
(* int() are sequences of one-character strings, dicts the code iterates   *)
(* are sequences of <<key, value>> entries in insertion order, and dicts   *)
(* the code reads with .get are functions over the keys it reads, whose    *)
(* missing keys hold Absent.                                               *)
(***************************************************************************)
EXTENDS Integers, Sequences, FiniteSets, TLC

\* ------------------------------------------------------------------------
\* Bounds of the model
\* ------------------------------------------------------------------------
MaxRuns == 2

MaxGuilds == 2

MaxEntries == 2

\* ------------------------------------------------------------------------
\* JSON values
\* ------------------------------------------------------------------------
Absent == [t |-> "absent"]

JNull == [t |-> "null"]

JInt(n) == [t |-> "int", v |-> n]

JStr(s) == [t |-> "str", v |-> s]

JBool(b) == [t |-> "bool", v |-> b]

JList(l) == [t |-> "list", v |-> l]

JObj(o) == [t |-> "obj", v |-> o]

JDict(es) == [t |-> "dict", v |-> es]

\* keys the code reads from a user record, a guild's metadata, a daily goal
UserFields ==
    { "level", "total_xp", "xp_to_next_level", "total_commands_used",
      "total_messages", "last_daily", "daily_streak", "last_message_timestamp",
      "achievements", "best_rank", "previous_rank", "rank_improvement",
      "images_shared", "long_messages", "links_shared", "goals_completed",
      "boost_days", "first_boost_date", "xp_history" }

MetaFields == { "daily_goal" }

GoalFields == { "date", "target", "progress", "claimers", "completed", "bonus_awarded_to" }

\* the dict {} read through the keys F
EmptyObj(F) == [k \in F |-> Absent]

\* isinstance(x, dict)
IsDict(x) == x.t \in {"obj", "dict"}

\* d.get(k, default) on a dict
Get(d, k, default) == IF d.v[k] = Absent THEN default ELSE d.v[k]

\* the test "is not None" in place of the truth value
TruthyNotNone(x) == x.t # "null"

\* Python truth value of a JSON value
Truthy(x) ==
    CASE x.t = "null" -> FALSE
      [] x.t = "bool" -> x.v
      [] x.t = "int" -> x.v # 0
      [] x.t = "str" -> x.v # ""
      [] x.t = "list" -> x.v # <<>>
      [] x.t = "dict" -> x.v # <<>>
      [] x.t = "obj" -> \E k \in DOMAIN x.v : x.v[k] # Absent

\* ------------------------------------------------------------------------
\* int(str): surrounding whitespace is stripped, one sign is allowed, then
\* decimal digits with single underscores between them; anything else is a
\* ValueError.
\* ------------------------------------------------------------------------
Digits == <<"0", "1", "2", "3", "4", "5", "6", "7", "8", "9">>

IsDigit(c) == \E i \in 1..Len(Digits) : Digits[i] = c

DigitVal(c) == (CHOOSE i \in 1..Len(Digits) : Digits[i] = c) - 1

IsSpace(c) == c \in {" ", "\t", "\n"}

RECURSIVE LStrip(_)
LStrip(s) == IF s # <<>> /\ IsSpace(Head(s)) THEN LStrip(Tail(s)) ELSE s

RECURSIVE RStrip(_)
RStrip(s) ==
    IF s # <<>> /\ IsSpace(s[Len(s)]) THEN RStrip(SubSeq(s, 1, Len(s) - 1)) ELSE s

ValueError == [ok |-> FALSE, v |-> 0]

\* digits of s read left to right into acc; prev is TRUE after a digit
RECURSIVE ParseDigits(_, _, _)
ParseDigits(s, acc, prev) ==
    IF s = <<>> THEN (IF prev THEN [ok |-> TRUE, v |-> acc] ELSE ValueError)
    ELSE IF IsDigit(Head(s)) THEN ParseDigits(Tail(s), 10 * acc + DigitVal(Head(s)), TRUE)
    ELSE IF Head(s) = "_" /\ prev THEN ParseDigits(Tail(s), acc, FALSE)
    ELSE ValueError

PyInt(s) ==
    LET b == RStrip(LStrip(s))
        neg == b # <<>> /\ Head(b) = "-"
        body == IF b # <<>> /\ Head(b) \in {"-", "+"} THEN Tail(b) ELSE b
        r == ParseDigits(body, 0, FALSE)
    IN  IF r.ok /\ neg THEN [ok |-> TRUE, v |-> 0 - r.v] ELSE r

\* ------------------------------------------------------------------------
\* json.dumps
\* ------------------------------------------------------------------------
DumpsStr(s) == "\"" \o s \o "\""

RECURSIVE DumpsItems(_)
DumpsItems(l) ==
    IF l = <<>> THEN ""
    ELSE IF Len(l) = 1 THEN DumpsStr(l[1])
    ELSE DumpsStr(Head(l)) \o ", " \o DumpsItems(Tail(l))

Dumps(x) ==
    CASE x.t = "null" -> "null"
      [] x.t = "bool" -> (IF x.v THEN "true" ELSE "false")
      [] x.t = "int" -> ToString(x.v)
      [] x.t = "str" -> DumpsStr(x.v)
      [] x.t = "list" -> "[" \o DumpsItems(x.v) \o "]"

\* ------------------------------------------------------------------------
\* SQLite values and the two tables
\* ------------------------------------------------------------------------
SqlNull == [t |-> "NULL"]

SqlInt(n) == [t |-> "INTEGER", v |-> n]

SqlText(s) == [t |-> "TEXT", v |-> s]

\* sqlite3 parameter binding of a Python value
Bind(x) ==
    CASE x.t = "null" -> SqlNull
      [] x.t = "int" -> SqlInt(x.v)
      [] x.t = "bool" -> SqlInt(IF x.v THEN 1 ELSE 0)
      [] x.t = "str" -> SqlText(x.v)

NoDefault == [t |-> "none"]

Col(notnull, dflt) == [notnull |-> notnull, dflt |-> dflt]

\* CREATE TABLE IF NOT EXISTS user_profiles
UserSchema ==
    [ user_id |-> Col(TRUE, NoDefault),
      guild_id |-> Col(TRUE, NoDefault),
      level |-> Col(TRUE, SqlInt(1)),
      total_xp |-> Col(TRUE, SqlInt(0)),
      xp_to_next_level |-> Col(TRUE, SqlInt(100)),
      total_commands_used |-> Col(TRUE, SqlInt(0)),
      total_messages |-> Col(TRUE, SqlInt(0)),
      last_daily |-> Col(FALSE, NoDefault),
      daily_streak |-> Col(TRUE, SqlInt(0)),
      last_message_timestamp |-> Col(FALSE, NoDefault),
      achievements |-> Col(TRUE, SqlText("[]")),
      best_rank |-> Col(TRUE, SqlInt(999)),
      previous_rank |-> Col(TRUE, SqlInt(999)),
      rank_improvement |-> Col(TRUE, SqlInt(0)),
      images_shared |-> Col(TRUE, SqlInt(0)),
      long_messages |-> Col(TRUE, SqlInt(0)),
      links_shared |-> Col(TRUE, SqlInt(0)),
      goals_completed |-> Col(TRUE, SqlInt(0)),
      boost_days |-> Col(TRUE, SqlInt(0)),
      first_boost_date |-> Col(FALSE, NoDefault),
      xp_history |-> Col(TRUE, SqlText("[]")) ]

UserKey == {"user_id", "guild_id"}

\* CREATE TABLE IF NOT EXISTS daily_goals
GoalSchema ==
    [ guild_id |-> Col(TRUE, NoDefault),
      date |-> Col(TRUE, NoDefault),
      target |-> Col(TRUE, NoDefault),
      progress |-> Col(TRUE, NoDefault),
      claimers |-> Col(TRUE, SqlText("[]")),
      completed |-> Col(TRUE, SqlInt(0)),
      bonus_awarded_to |-> Col(TRUE, SqlText("[]")) ]

GoalKey == {"guild_id"}

\* the values the statement binds, as SQLite values
BindAll(params) == [c \in DOMAIN params |-> Bind(params[c])]

\* REPLACE conflict resolution of a NOT NULL violation: the column's default
\* stands in for the NULL when the column has one
FillDefaults(schema, row) ==
    [c \in DOMAIN row |->
        IF row[c] = SqlNull /\ schema[c].notnull /\ schema[c].dflt # NoDefault
        THEN schema[c].dflt ELSE row[c]]

\* ... and the statement aborts with IntegrityError when it has none
IntegrityError(schema, row) ==
    \E c \in DOMAIN row :
        row[c] = SqlNull /\ schema[c].notnull /\ schema[c].dflt = NoDefault

SameKey(pk, r1, r2) == \A c \in pk : r1[c] = r2[c]

\* an upsert that adds the integer columns of the new row to the stored ones
InsertOrAdd(table, schema, pk, row) ==
    LET new == FillDefaults(schema, row)
        old == { r \in table : SameKey(pk, r, new) }
        sum(r) == [c \in DOMAIN new |->
                      IF c \notin pk /\ new[c].t = "INTEGER" /\ r[c].t = "INTEGER"
                      THEN SqlInt(r[c].v + new[c].v) ELSE new[c]]
    IN  (table \ old) \cup (IF old = {} THEN {new} ELSE { sum(r) : r \in old })

\* a merging upsert: the row already stored keeps its columns
InsertOrIgnore(table, schema, pk, row) ==
    LET new == FillDefaults(schema, row)
    IN  IF \E r \in table : SameKey(pk, r, new) THEN table ELSE table \cup {new}

\* INSERT OR REPLACE INTO table VALUES row
InsertOrReplace(table, schema, pk, row) ==
    LET new == FillDefaults(schema, row)
    IN  {r \in table : ~SameKey(pk, r, new)} \cup {new}

\* the user_profiles parameters with 0 as the default of the two ranks
UserParamsRankZero(user_id, guild_id, user_data) ==
    [ user_id |-> JInt(user_id),
      guild_id |-> JInt(guild_id),
      level |-> Get(user_data, "level", JInt(1)),
      total_xp |-> Get(user_data, "total_xp", JInt(0)),
      xp_to_next_level |-> Get(user_data, "xp_to_next_level", JInt(100)),
      total_commands_used |-> Get(user_data, "total_commands_used", JInt(0)),
      total_messages |-> Get(user_data, "total_messages", JInt(0)),
      last_daily |-> Get(user_data, "last_daily", JNull),
      daily_streak |-> Get(user_data, "daily_streak", JInt(0)),
      last_message_timestamp |-> Get(user_data, "last_message_timestamp", JNull),
      achievements |-> JStr(Dumps(Get(user_data, "achievements", JList(<<>>)))),
      best_rank |-> Get(user_data, "best_rank", JInt(0)),
      previous_rank |-> Get(user_data, "previous_rank", JInt(0)),
      rank_improvement |-> Get(user_data, "rank_improvement", JInt(0)),
      images_shared |-> Get(user_data, "images_shared", JInt(0)),
      long_messages |-> Get(user_data, "long_messages", JInt(0)),
      links_shared |-> Get(user_data, "links_shared", JInt(0)),
      goals_completed |-> Get(user_data, "goals_completed", JInt(0)),
      boost_days |-> Get(user_data, "boost_days", JInt(0)),
      first_boost_date |-> Get(user_data, "first_boost_date", JNull),
      xp_history |-> JStr(Dumps(Get(user_data, "xp_history", JList(<<>>)))) ]

\* the parameters of the user_profiles statement for one user record:
\* "Extract fields with defaults"
UserParams(user_id, guild_id, user_data) ==
    [ user_id |-> JInt(user_id),
      guild_id |-> JInt(guild_id),
      level |-> Get(user_data, "level", JInt(1)),
      total_xp |-> Get(user_data, "total_xp", JInt(0)),
      xp_to_next_level |-> Get(user_data, "xp_to_next_level", JInt(100)),
      total_commands_used |-> Get(user_data, "total_commands_used", JInt(0)),
      total_messages |-> Get(user_data, "total_messages", JInt(0)),
      last_daily |-> Get(user_data, "last_daily", JNull),
      daily_streak |-> Get(user_data, "daily_streak", JInt(0)),
      last_message_timestamp |-> Get(user_data, "last_message_timestamp", JNull),
      achievements |-> JStr(Dumps(Get(user_data, "achievements", JList(<<>>)))),
      best_rank |-> Get(user_data, "best_rank", JInt(999)),
      previous_rank |-> Get(user_data, "previous_rank", JInt(999)),
      rank_improvement |-> Get(user_data, "rank_improvement", JInt(0)),
      images_shared |-> Get(user_data, "images_shared", JInt(0)),
      long_messages |-> Get(user_data, "long_messages", JInt(0)),
      links_shared |-> Get(user_data, "links_shared", JInt(0)),
      goals_completed |-> Get(user_data, "goals_completed", JInt(0)),
      boost_days |-> Get(user_data, "boost_days", JInt(0)),
      first_boost_date |-> Get(user_data, "first_boost_date", JNull),
      xp_history |-> JStr(Dumps(Get(user_data, "xp_history", JList(<<>>)))) ]

\* the parameters of the daily_goals statement for one daily goal
GoalParams(guild_id, daily_goal) ==
    [ guild_id |-> JInt(guild_id),
      date |-> Get(daily_goal, "date", JStr("")),
      target |-> Get(daily_goal, "target", JInt(0)),
      progress |-> Get(daily_goal, "progress", JInt(0)),
      claimers |-> JStr(Dumps(Get(daily_goal, "claimers", JList(<<>>)))),
      completed |-> Get(daily_goal, "completed", JBool(FALSE)),
      bonus_awarded_to |-> JStr(Dumps(Get(daily_goal, "bonus_awarded_to", JList(<<>>)))) ]

\* ------------------------------------------------------------------------
\* Input documents
\* ------------------------------------------------------------------------
META == <<"_", "_", "m", "e", "t", "a", "_", "_">>

LEGACY == <<"_", "_", "l", "e", "g", "a", "c", "y", "_", "_">>

\* d.pop(key, default): the value popped
Pop(d, key, default) ==
    IF \E i \in 1..Len(d.v) : d.v[i][1] = key
    THEN d.v[CHOOSE i \in 1..Len(d.v) : d.v[i][1] = key][2]
    ELSE default

\* d.pop(key, default): the dict left behind, in its insertion order
RECURSIVE WithoutKey(_, _)
WithoutKey(es, key) ==
    IF es = <<>> THEN <<>>
    ELSE IF Head(es)[1] = key THEN WithoutKey(Tail(es), key)
    ELSE <<Head(es)>> \o WithoutKey(Tail(es), key)

\* meta_data = data.pop("__meta__", {})
MetaOf(document) == Pop(document, META, JDict(<<>>))

\* data after both pops: the progression section
DataOf(document) == JDict(WithoutKey(WithoutKey(document.v, META), LEGACY))

UserOf(S, f) == JObj([k \in UserFields |-> IF k \in S THEN f[k] ELSE Absent])

GoalOf(S, f) == JObj([k \in GoalFields |-> IF k \in S THEN f[k] ELSE Absent])

MetaWith(goal) == JObj([k \in MetaFields |-> goal])

NotADict == JList(<<"x">>)

\* user records: {}, the record of the documented scenario, and one whose
\* level and achievements are null
NoFields == JObj(EmptyObj(UserFields))

LevelFive == UserOf({"level", "total_xp"}, [level |-> JInt(5), total_xp |-> JInt(1200)])

WithNulls ==
    UserOf({"level", "achievements", "xp_history", "last_daily"},
           [level |-> JNull, achievements |-> JNull,
            xp_history |-> JList(<<"m", "d">>), last_daily |-> JStr("2024-01-01")])

\* entries of a guild's dict of users
UserEntries ==
    { << <<"1">>, LevelFive >>,
      << <<"1">>, WithNulls >>,
      << <<"+", "2">>, NoFields >>,
      << <<"x">>, LevelFive >>,
      << <<"3">>, NotADict >> }

\* daily goals: the goal of the documented scenario, and one with claimers null
FullGoal ==
    GoalOf(GoalFields,
           [date |-> JStr("2024-01-01"), target |-> JInt(500), progress |-> JInt(120),
            claimers |-> JList(<<"1">>), completed |-> JBool(FALSE),
            bonus_awarded_to |-> JList(<<>>)])

NullClaimers ==
    GoalOf({"date", "claimers", "completed"},
           [date |-> JStr("2024-01-02"), claimers |-> JNull, completed |-> JBool(TRUE)])

\* entries of the "__meta__" dict
MetaEntries ==
    { << <<"1", "0">>, MetaWith(FullGoal) >>,
      << <<"1", "0">>, MetaWith(NullClaimers) >>,
      << <<"1", "0">>, MetaWith(Absent) >>,
      << <<"1", "0">>, MetaWith(JNull) >>,
      << <<"1", "0">>, MetaWith(JObj(EmptyObj(GoalFields))) >>,
      << <<"1", "0">>, MetaWith(GoalOf({"date"}, [date |-> JNull])) >>,
      << <<"1", "0">>, MetaWith(NotADict) >>,
      << <<" ", "2", "0">>, MetaWith(FullGoal) >>,
      << <<"2", "0">>, NotADict >>,
      << <<"1", "0", "a">>, MetaWith(FullGoal) >> }

\* the dicts of at most n entries of E with distinct keys, in every insertion
\* order
RECURSIVE DictsOf(_, _)
DictsOf(E, n) ==
    IF n = 0 THEN { <<>> }
    ELSE { <<>> } \cup
         UNION { { <<e>> \o rest : rest \in DictsOf({x \in E : x[1] # e[1]}, n - 1) }
                 : e \in E }

\* entries of the progression section: guild "10" with any dict of users, a
\* guild key that is no integer, a second spelling of 10, and a guild whose
\* value is no dict
GuildEntries ==
    { << <<"1", "0">>, JDict(us) >> : us \in DictsOf(UserEntries, MaxEntries) } \cup
    { << <<"a", "b", "c">>, JDict(<< << <<"1">>, LevelFive >> >>) >>,
      << <<"0", "1", "0">>, JDict(<< << <<"1">>, WithNulls >> >>) >>,
      << <<"2", "0">>, NotADict >> }

\* number of user records of a progression section
RECURSIVE NumUsers(_)
NumUsers(es) ==
    IF es = <<>> THEN 0
    ELSE (IF Head(es)[2].t = "dict" THEN Len(Head(es)[2].v) ELSE 0) + NumUsers(Tail(es))

Progressions == { p \in DictsOf(GuildEntries, MaxGuilds) : NumUsers(p) <= MaxEntries }

\* the "__meta__" entry of a document, when it has one
MetaParts(n) == { <<>> } \cup { << <<META, JDict(ms)>> >> : ms \in DictsOf(MetaEntries, n) }

NumMeta(m) == IF m = <<>> THEN 0 ELSE Len(m[1][2].v)

LegacyParts == { <<>>, << <<LEGACY, JDict(<<>>)>> >> }

\* the documents: a progression section, then "__meta__" and "__legacy__" when
\* the document has them; MaxEntries bounds the user records, the metadata
\* entries and the legacy section of a document together
Documents ==
    UNION { UNION { { JDict(p \o m \o l)
                      : l \in { x \in LegacyParts
                                : NumUsers(p) + NumMeta(m) + Len(x) <= MaxEntries } }
                    : m \in MetaParts(MaxEntries - NumUsers(p)) }
            : p \in Progressions }

\* ------------------------------------------------------------------------
\* State
\* ------------------------------------------------------------------------
VARIABLES
    pc,          \* where the current call of migrate_levels stands
    run,         \* number of calls of migrate_levels so far
    file,        \* what json_path holds: Absent or the document
    repeat,      \* this call was given the file of the previous call
    again,       \* the tool will be started again on this file
    store,       \* the database file db_path: what is durable
    snap,        \* store as it was when the current call started
    conn,        \* the connection: "none", "open" or "closed"
    txn,         \* the tables as the open connection sees them
    gi,          \* position of the guild loop in data.items()
    ui,          \* position of the user loop in users.items(), 0 outside it
    mi,          \* position of the daily-goal loop in meta_data.items()
    user_count,
    goal_count,
    out,         \* lines printed by this call
    events       \* statements this call issued on the store, in order

vars == <<pc, run, file, repeat, again, store, snap, conn, txn, gi, ui, mi,
          user_count, goal_count, out, events>>

NoTables == [user_profiles |-> {}, daily_goals |-> {}]

NoStore == [exists |-> FALSE, tables |-> FALSE, user_profiles |-> {}, daily_goals |-> {}]

Terminal == pc \in {"notfound", "done", "raised"}

data == DataOf(file)

meta_data == MetaOf(file)

guild_id_str == data.v[gi][1]

users == data.v[gi][2]

user_id_str == users.v[ui][1]

user_data == users.v[ui][2]

meta_id_str == meta_data.v[mi][1]

guild_meta == meta_data.v[mi][2]

Init ==
    /\ pc = "idle"
    /\ run = 0
    /\ file = Absent
    /\ repeat = FALSE
    /\ again = FALSE
    /\ store = NoStore
    /\ snap = NoStore
    /\ conn = "none"
    /\ txn = NoTables
    /\ gi = 0
    /\ ui = 0
    /\ mi = 0
    /\ user_count = 0
    /\ goal_count = 0
    /\ out = <<>>
    /\ events = <<>>

\* a call that connects and creates the tables before it looks for the file
EnterConnectFirst(f, rep, ag) ==
    /\ run' = run + 1
    /\ file' = f
    /\ repeat' = rep
    /\ again' = ag
    /\ snap' = store
    /\ store' = [store EXCEPT !.exists = TRUE, !.tables = TRUE]
    /\ txn' = NoTables
    /\ gi' = 0 /\ ui' = 0 /\ mi' = 0
    /\ user_count' = 0 /\ goal_count' = 0
    /\ events' = <<>>
    /\ IF f = Absent
       THEN /\ out' = << <<"Error: not found">> >>
            /\ conn' = "open"
            /\ pc' = "notfound"
       ELSE /\ out' = << <<"Loading levels">> >>
            /\ conn' = "none"
            /\ pc' = "connect"

\* a call of migrate_levels(json_path, db_path) up to the connection: the
\* existence check and the load
Enter(f, rep, ag) ==
    /\ run' = run + 1
    /\ file' = f
    /\ repeat' = rep
    /\ again' = ag
    /\ snap' = store
    /\ conn' = "none"
    /\ txn' = NoTables
    /\ gi' = 0 /\ ui' = 0 /\ mi' = 0
    /\ user_count' = 0 /\ goal_count' = 0
    /\ events' = <<>>
    /\ UNCHANGED store
    /\ IF f = Absent
       THEN /\ out' = << <<"Error: not found">> >>
            /\ pc' = "notfound"
       ELSE /\ out' = << <<"Loading levels">> >>
            /\ pc' = "connect"

\* the tool is started on a file
Invoke ==
    /\ pc = "idle"
    /\ run < MaxRuns
    /\ \E f \in {Absent} \cup Documents :
       \E ag \in {b \in BOOLEAN : b => run + 1 < MaxRuns} : Enter(f, FALSE, ag)

\* the tool is started again on the file of the call that just ended
InvokeAgain ==
    /\ Terminal
    /\ again
    /\ run < MaxRuns
    /\ Enter(file, TRUE, FALSE)

\* the process of a call that ended goes away, and with it its connection and
\* whatever it had not committed; the database file stays
Exit ==
    /\ Terminal
    /\ ~again
    /\ pc' = "idle"
    /\ file' = Absent
    /\ repeat' = FALSE
    /\ snap' = store
    /\ conn' = "none"
    /\ txn' = NoTables
    /\ gi' = 0 /\ ui' = 0 /\ mi' = 0
    /\ user_count' = 0 /\ goal_count' = 0
    /\ out' = <<>>
    /\ events' = <<>>
    /\ UNCHANGED <<run, again, store>>

\* conn = sqlite3.connect(db_path)
Connect ==
    /\ pc = "connect"
    /\ conn' = "open"
    /\ store' = [store EXCEPT !.exists = TRUE]
    /\ txn' = [user_profiles |-> store.user_profiles, daily_goals |-> store.daily_goals]
    /\ out' = Append(out, <<"Connecting to database">>)
    /\ events' = Append(events, "connect")
    /\ pc' = "schema"
    /\ UNCHANGED <<run, file, repeat, again, snap, gi, ui, mi, user_count, goal_count>>

\* the two CREATE TABLE IF NOT EXISTS statements, which sqlite3 runs outside
\* any transaction
EnsureTables ==
    /\ pc = "schema"
    /\ store' = [store EXCEPT !.tables = TRUE]
    /\ events' = events \o <<"create user_profiles", "create daily_goals">>
    /\ out' = Append(out, <<"Migrating users">>)
    /\ user_count' = 0
    /\ gi' = 1
    /\ ui' = 0
    /\ pc' = "users"
    /\ UNCHANGED <<run, file, repeat, again, snap, conn, txn, mi, goal_count>>

AtGuild == pc = "users" /\ ui = 0 /\ gi <= Len(data.v)

AtUser == pc = "users" /\ ui >= 1 /\ ui <= Len(users.v)

AtMeta == pc = "goals" /\ mi <= Len(meta_data.v)

\* the guild is skipped without a word
SkipInvalidGuildSilently ==
    /\ AtGuild
    /\ ~PyInt(guild_id_str).ok
    /\ gi' = gi + 1
    /\ UNCHANGED <<pc, run, file, repeat, again, store, snap, conn, txn, ui, mi,
                   user_count, goal_count, out, events>>

\* except ValueError: print(...); continue
SkipInvalidGuild ==
    /\ AtGuild
    /\ ~PyInt(guild_id_str).ok
    /\ out' = Append(out, <<"Skipping invalid guild ID", guild_id_str>>)
    /\ gi' = gi + 1
    /\ UNCHANGED <<pc, run, file, repeat, again, store, snap, conn, txn, ui, mi,
                   user_count, goal_count, events>>

\* if not isinstance(users, dict): continue
SkipGuildNotDict ==
    /\ AtGuild
    /\ PyInt(guild_id_str).ok
    /\ ~IsDict(users)
    /\ gi' = gi + 1
    /\ UNCHANGED <<pc, run, file, repeat, again, store, snap, conn, txn, ui, mi,
                   user_count, goal_count, out, events>>

\* for user_id_str, user_data in users.items(): the loop is entered
EnterGuild ==
    /\ AtGuild
    /\ PyInt(guild_id_str).ok
    /\ IsDict(users)
    /\ ui' = 1
    /\ UNCHANGED <<pc, run, file, repeat, again, store, snap, conn, txn, gi, mi,
                   user_count, goal_count, out, events>>

\* users.items() is exhausted: on to the next guild
LeaveGuild ==
    /\ pc = "users"
    /\ ui >= 1
    /\ ui > Len(users.v)
    /\ ui' = 0
    /\ gi' = gi + 1
    /\ UNCHANGED <<pc, run, file, repeat, again, store, snap, conn, txn, mi,
                   user_count, goal_count, out, events>>

\* except ValueError: continue
SkipInvalidUser ==
    /\ AtUser
    /\ ~PyInt(user_id_str).ok
    /\ ui' = ui + 1
    /\ UNCHANGED <<pc, run, file, repeat, again, store, snap, conn, txn, gi, mi,
                   user_count, goal_count, out, events>>

\* user_data.get raises AttributeError when user_data is no dict; nothing
\* catches it, so the call ends there with the connection open and the
\* transaction uncommitted
UserNotMapping ==
    /\ AtUser
    /\ PyInt(user_id_str).ok
    /\ ~IsDict(user_data)
    /\ pc' = "raised"
    /\ UNCHANGED <<run, file, repeat, again, store, snap, conn, txn, gi, ui, mi,
                   user_count, goal_count, out, events>>

\* the row is upserted and committed at once
UpsertUserAndCommit ==
    /\ AtUser
    /\ PyInt(user_id_str).ok
    /\ IsDict(user_data)
    /\ LET row == BindAll(UserParams(PyInt(user_id_str).v, PyInt(guild_id_str).v, user_data))
       IN  /\ txn' = [txn EXCEPT !.user_profiles = InsertOrReplace(@, UserSchema, UserKey, row)]
           /\ store' = [store EXCEPT !.user_profiles = InsertOrReplace(txn.user_profiles, UserSchema, UserKey, row),
                                     !.daily_goals = txn.daily_goals]
    /\ events' = events \o <<"upsert user_profiles", "commit">>
    /\ user_count' = user_count + 1
    /\ ui' = ui + 1
    /\ UNCHANGED <<pc, run, file, repeat, again, snap, conn, gi, mi, goal_count, out>>

\* the fields are read with their defaults and the row is upserted
UpsertUser ==
    /\ AtUser
    /\ PyInt(user_id_str).ok
    /\ IsDict(user_data)
    /\ LET row == BindAll(UserParams(PyInt(user_id_str).v, PyInt(guild_id_str).v, user_data))
       IN  txn' = [txn EXCEPT !.user_profiles = InsertOrReplace(@, UserSchema, UserKey, row)]
    /\ events' = Append(events, "upsert user_profiles")
    /\ user_count' = user_count + 1
    /\ ui' = ui + 1
    /\ UNCHANGED <<pc, run, file, repeat, again, store, snap, conn, gi, mi, goal_count, out>>

\* data.items() is exhausted: the count is printed and the goal loop starts
UsersDone ==
    /\ pc = "users"
    /\ ui = 0
    /\ gi > Len(data.v)
    /\ out' = out \o << <<"Migrated user profiles", user_count>>, <<"Migrating daily goals">> >>
    /\ goal_count' = 0
    /\ mi' = 1
    /\ pc' = "goals"
    /\ UNCHANGED <<run, file, repeat, again, store, snap, conn, txn, gi, ui, user_count, events>>

\* except ValueError: continue
SkipInvalidMeta ==
    /\ AtMeta
    /\ ~PyInt(meta_id_str).ok
    /\ mi' = mi + 1
    /\ UNCHANGED <<pc, run, file, repeat, again, store, snap, conn, txn, gi, ui,
                   user_count, goal_count, out, events>>

\* guild_meta.get raises AttributeError when guild_meta is no dict
MetaNotMapping ==
    /\ AtMeta
    /\ PyInt(meta_id_str).ok
    /\ ~IsDict(guild_meta)
    /\ pc' = "raised"
    /\ UNCHANGED <<run, file, repeat, again, store, snap, conn, txn, gi, ui, mi,
                   user_count, goal_count, out, events>>

daily_goal == Get(guild_meta, "daily_goal", JNull)

AtGoal == AtMeta /\ PyInt(meta_id_str).ok /\ IsDict(guild_meta)

\* if daily_goal: is false
NoDailyGoal ==
    /\ AtGoal
    /\ ~Truthy(daily_goal)
    /\ mi' = mi + 1
    /\ UNCHANGED <<pc, run, file, repeat, again, store, snap, conn, txn, gi, ui,
                   user_count, goal_count, out, events>>

\* daily_goal.get raises AttributeError when daily_goal is true and no dict
GoalNotMapping ==
    /\ AtGoal
    /\ Truthy(daily_goal)
    /\ ~IsDict(daily_goal)
    /\ pc' = "raised"
    /\ UNCHANGED <<run, file, repeat, again, store, snap, conn, txn, gi, ui, mi,
                   user_count, goal_count, out, events>>

GoalRow == BindAll(GoalParams(PyInt(meta_id_str).v, daily_goal))

\* the statement raises IntegrityError: a NULL for a NOT NULL column that has
\* no default
GoalIntegrityError ==
    /\ AtGoal
    /\ Truthy(daily_goal)
    /\ IsDict(daily_goal)
    /\ IntegrityError(GoalSchema, GoalRow)
    /\ pc' = "raised"
    /\ UNCHANGED <<run, file, repeat, again, store, snap, conn, txn, gi, ui, mi,
                   user_count, goal_count, out, events>>

UpsertGoal ==
    /\ AtGoal
    /\ Truthy(daily_goal)
    /\ IsDict(daily_goal)
    /\ ~IntegrityError(GoalSchema, GoalRow)
    /\ txn' = [txn EXCEPT !.daily_goals = InsertOrReplace(@, GoalSchema, GoalKey, GoalRow)]
    /\ events' = Append(events, "upsert daily_goals")
    /\ goal_count' = goal_count + 1
    /\ mi' = mi + 1
    /\ UNCHANGED <<pc, run, file, repeat, again, store, snap, conn, gi, ui, user_count, out>>

\* meta_data.items() is exhausted: the count is printed
GoalsDone ==
    /\ pc = "goals"
    /\ mi > Len(meta_data.v)
    /\ out' = Append(out, <<"Migrated daily goals", goal_count>>)
    /\ pc' = "commit"
    /\ UNCHANGED <<run, file, repeat, again, store, snap, conn, txn, gi, ui, mi,
                   user_count, goal_count, events>>

\* conn.commit()
Commit ==
    /\ pc = "commit"
    /\ store' = [store EXCEPT !.user_profiles = txn.user_profiles,
                              !.daily_goals = txn.daily_goals]
    /\ events' = Append(events, "commit")
    /\ pc' = "close"
    /\ UNCHANGED <<run, file, repeat, again, snap, conn, txn, gi, ui, mi,
                   user_count, goal_count, out>>

\* conn.close(), then the last line is printed and the call returns
Close ==
    /\ pc = "close"
    /\ conn' = "closed"
    /\ events' = Append(events, "close")
    /\ out' = Append(out, <<"Migration complete">>)
    /\ pc' = "done"
    /\ UNCHANGED <<run, file, repeat, again, store, snap, txn, gi, ui, mi,
                   user_count, goal_count>>

Next ==
    \/ Invoke
    \/ InvokeAgain
    \/ Exit
    \/ Connect
    \/ EnsureTables
    \/ SkipInvalidGuild
    \/ SkipGuildNotDict
    \/ EnterGuild
    \/ LeaveGuild
    \/ SkipInvalidUser
    \/ UserNotMapping
    \/ UpsertUser
    \/ UsersDone
    \/ SkipInvalidMeta
    \/ MetaNotMapping
    \/ NoDailyGoal
    \/ GoalNotMapping
    \/ GoalIntegrityError
    \/ UpsertGoal
    \/ GoalsDone
    \/ Commit
    \/ Close

Spec == Init /\ [][Next]_vars

TypeOK == pc \in {"idle", "notfound", "connect", "schema", "users", "goals",
                  "commit", "close", "done", "raised"}

\* ------------------------------------------------------------------------
\* Vocabulary of the properties
\* ------------------------------------------------------------------------
Loaded == file # Absent /\ pc # "idle"

\* positions <<i, j>> of the user records whose guild key and user key are
\* both integers (the guild's value being a dict)
KeyedPairs ==
    { q \in UNION { { <<i, j>> : j \in 1..(IF IsDict(data.v[i][2]) THEN Len(data.v[i][2].v) ELSE 0) }
                    : i \in 1..Len(data.v) }
      : PyInt(data.v[q[1]][1]).ok /\ PyInt(data.v[q[1]][2].v[q[2]][1]).ok }

GuildIdAt(q) == PyInt(data.v[q[1]][1]).v

UserIdAt(q) == PyInt(data.v[q[1]][2].v[q[2]][1]).v

RecordAt(q) == data.v[q[1]][2].v[q[2]][2]

Before(q1, q2) == q1[1] < q2[1] \/ (q1[1] = q2[1] /\ q1[2] < q2[2])

\* the record at q is the last one of the document for its (user, guild) ids
LastForKey(q) ==
    ~\E q2 \in KeyedPairs :
        Before(q, q2) /\ GuildIdAt(q2) = GuildIdAt(q) /\ UserIdAt(q2) = UserIdAt(q)

RowsOf(table, uid, gid) ==
    { r \in table : r.user_id = SqlInt(uid) /\ r.guild_id = SqlInt(gid) }

ListFields == {"achievements", "xp_history"}

\* the documented defaults of the user_profiles columns
DocumentedDefault ==
    [f \in UserFields |->
        CASE f = "level" -> SqlInt(1)
          [] f = "xp_to_next_level" -> SqlInt(100)
          [] f \in {"best_rank", "previous_rank"} -> SqlInt(999)
          [] f \in ListFields -> SqlText("[]")
          [] f \in {"last_daily", "last_message_timestamp", "first_boost_date"} -> SqlNull
          [] OTHER -> SqlInt(0)]

\* the source value of a field that is present, as the column stores it
SourceValue(rec, f) ==
    IF f \in ListFields THEN SqlText(Dumps(rec.v[f])) ELSE Bind(rec.v[f])

\* a row whose every column is the default of an absent field and the source
\* value of a present one
RowAsClaimed(r, rec) ==
    \A f \in UserFields :
        r[f] = IF rec.v[f] = Absent THEN DocumentedDefault[f] ELSE SourceValue(rec, f)

\* the same, a scalar field that is present as null counting as absent
RowAsWritten(r, rec) ==
    \A f \in UserFields :
        r[f] = IF rec.v[f] = Absent \/ (rec.v[f] = JNull /\ f \notin ListFields)
               THEN DocumentedDefault[f] ELSE SourceValue(rec, f)

\* the user loop has just gone past a record with integer keys that is a dict
JustUpserted ==
    /\ pc = "users"
    /\ ui >= 2
    /\ <<gi, ui - 1>> \in KeyedPairs
    /\ IsDict(RecordAt(<<gi, ui - 1>>))

WrittenRows == RowsOf(txn.user_profiles, UserIdAt(<<gi, ui - 1>>), GuildIdAt(<<gi, ui - 1>>))

\* all guild values and all user records of the document are dicts
WellFormed ==
    /\ \A i \in 1..Len(data.v) : IsDict(data.v[i][2])
    /\ \A i \in 1..Len(data.v) : \A j \in 1..Len(data.v[i][2].v) : IsDict(data.v[i][2].v[j][2])

\* ------------------------------------------------------------------------
\* C1: for a well-formed document, a second call on the same document, after
\* a first call that started from an empty store, leaves both tables exactly
\* as the first call left them.
\* ------------------------------------------------------------------------
C1_Idempotent ==
    (Terminal /\ repeat /\ run = 2 /\ Loaded /\ WellFormed) => store = snap

C1_Witness ==
    /\ pc = "done" /\ repeat /\ run = 2 /\ Loaded /\ WellFormed
    /\ store.user_profiles # {}
    /\ store.daily_goals # {}

\* ------------------------------------------------------------------------
\* C2 as claimed: the row written for a record with integer keys holds the
\* documented default of every absent field and the source value of every
\* present field.
\* ------------------------------------------------------------------------
C2_AsClaimed ==
    JustUpserted =>
        /\ Cardinality(WrittenRows) = 1
        /\ \A r \in WrittenRows : RowAsClaimed(r, RecordAt(<<gi, ui - 1>>))

\* C2 as amended: the row written for a record with integer keys holds the
\* documented default of every field that is absent, or present as null in a
\* column other than achievements and xp_history, and the source value of every
\* other present field (serialized for achievements and xp_history).
C2_Amended ==
    JustUpserted =>
        /\ Cardinality(WrittenRows) = 1
        /\ \A r \in WrittenRows : RowAsWritten(r, RecordAt(<<gi, ui - 1>>))

C2_Witness ==
    /\ JustUpserted
    /\ RecordAt(<<gi, ui - 1>>) = WithNulls
    /\ \E r \in WrittenRows : r.level = SqlInt(1) /\ r.best_rank = SqlInt(999)

\* ------------------------------------------------------------------------
\* C3 as claimed: when the progression section has a guild key or a user key
\* that is no integer, the call writes no row but for records whose keys are
\* both integers, and it writes a row for every such record.
\* ------------------------------------------------------------------------
HasBadKey ==
    \E i \in 1..Len(data.v) :
        \/ ~PyInt(data.v[i][1]).ok
        \/ /\ IsDict(data.v[i][2])
           /\ \E j \in 1..Len(data.v[i][2].v) : ~PyInt(data.v[i][2].v[j][1]).ok

C3_AsClaimed ==
    (Terminal /\ Loaded /\ HasBadKey) =>
        /\ \A r \in txn.user_profiles \ snap.user_profiles :
              \E q \in KeyedPairs :
                  r.user_id = SqlInt(UserIdAt(q)) /\ r.guild_id = SqlInt(GuildIdAt(q))
        /\ \A q \in KeyedPairs : RowsOf(txn.user_profiles, UserIdAt(q), GuildIdAt(q)) # {}

\* ------------------------------------------------------------------------
\* C4: when a call completes, the row of every (user, guild) key the document
\* has a record for holds what the last such record of the document gives,
\* column by column, whatever row the store held for the key before the call:
\* a field the record no longer has is back at its default.
\* ------------------------------------------------------------------------
C4_ReplaceNotMerge ==
    (pc = "done" /\ Loaded) =>
        \A q \in KeyedPairs :
            LastForKey(q) =>
                /\ Cardinality(RowsOf(store.user_profiles, UserIdAt(q), GuildIdAt(q))) = 1
                /\ \A r \in RowsOf(store.user_profiles, UserIdAt(q), GuildIdAt(q)) :
                      RowAsWritten(r, RecordAt(q))

C4_Witness ==
    /\ pc = "done" /\ Loaded
    /\ \E q \in KeyedPairs :
          /\ LastForKey(q)
          /\ RecordAt(q).v["total_xp"] = Absent
          /\ \E old \in RowsOf(snap.user_profiles, UserIdAt(q), GuildIdAt(q)) :
                old.total_xp = SqlInt(1200)
          /\ \E new \in RowsOf(store.user_profiles, UserIdAt(q), GuildIdAt(q)) :
                new.total_xp = SqlInt(0)

\* ------------------------------------------------------------------------
\* C5: a call whose input file does not exist returns without a connection:
\* it issues no statement and the store is as it was before the call.
\* ------------------------------------------------------------------------
C5_MissingFile ==
    pc = "notfound" => (conn = "none" /\ events = <<>> /\ store = snap)

C5_Witness ==
    pc = "notfound" /\ store.tables /\ store.user_profiles # {}

\* ------------------------------------------------------------------------
\* C6: the metadata entries whose daily_goal is absent, null or an empty
\* mapping cause no upsert into daily_goals and no increment of the goal
\* count, and a daily_goals row changes only for a guild that some entry with
\* a daily goal names.
\* ------------------------------------------------------------------------
MetaSeen == IF pc = "goals" THEN mi - 1 ELSE Len(meta_data.v)

NoGoalIn(m) ==
    m.v["daily_goal"] \in {Absent, JNull, JObj(EmptyObj(GoalFields))}

\* the metadata entries gone past that have an integer key and a daily goal
GoalsSeen ==
    { k \in 1..MetaSeen : PyInt(meta_data.v[k][1]).ok /\ ~NoGoalIn(meta_data.v[k][2]) }

GoalUpserts == { n \in 1..Len(events) : events[n] = "upsert daily_goals" }

C6_NoGoalNoWrite ==
    (pc \in {"goals", "commit", "close", "done"}) =>
        /\ Cardinality(GoalUpserts) = Cardinality(GoalsSeen)
        /\ goal_count = Cardinality(GoalsSeen)
        /\ \A r \in (txn.daily_goals \ snap.daily_goals) \cup (snap.daily_goals \ txn.daily_goals) :
              \E k \in GoalsSeen : r.guild_id = SqlInt(PyInt(meta_data.v[k][1]).v)
        /\ pc = "done" =>
              /\ store.daily_goals = txn.daily_goals
              /\ <<"Migrated daily goals", Cardinality(GoalsSeen)>> \in {out[n] : n \in 1..Len(out)}

C6_Witness ==
    /\ pc = "done"
    /\ \E k \in 1..Len(meta_data.v) :
          /\ PyInt(meta_data.v[k][1]).ok
          /\ meta_data.v[k][2].v["daily_goal"] = JObj(EmptyObj(GoalFields))
          /\ \E r \in snap.daily_goals : r.guild_id = SqlInt(PyInt(meta_data.v[k][1]).v)
    /\ store.daily_goals = snap.daily_goals
    /\ goal_count = 0

\* ------------------------------------------------------------------------
\* C7 as claimed: the list-valued columns of every row hold the serialization
\* of an array.
\* ------------------------------------------------------------------------
Items == {"1", "a", "d", "m"}

Arrays == { <<>> } \cup { <<a>> : a \in Items } \cup { <<a, b>> : a \in Items, b \in Items }

IsArrayText(x) == \E l \in Arrays : x = SqlText(Dumps(JList(l)))

C7_AsClaimed ==
    /\ \A r \in txn.user_profiles \cup store.user_profiles :
          IsArrayText(r.achievements) /\ IsArrayText(r.xp_history)
    /\ \A r \in txn.daily_goals \cup store.daily_goals :
          IsArrayText(r.claimers) /\ IsArrayText(r.bonus_awarded_to)

\* ------------------------------------------------------------------------
\* C8 as claimed: every identifier skipped for not being an integer is
\* reported, and the counts printed leave the skipped entries out.
\* ------------------------------------------------------------------------
IsSkipLine(line) == line[1] = "Skipping invalid guild ID"

\* the keys the call reported, in the order of the reports
Reported == [n \in 1..Len(SelectSeq(out, IsSkipLine)) |-> SelectSeq(out, IsSkipLine)[n][2]]

BadGuildEntry(e) == ~PyInt(e[1]).ok

\* the guild keys of the progression section that are no integers, in order
BadGuildKeys ==
    [n \in 1..Len(SelectSeq(data.v, BadGuildEntry)) |-> SelectSeq(data.v, BadGuildEntry)[n][1]]

\* positions of the user keys that are no integers, in guilds that are not skipped
BadUserKeys ==
    UNION { { <<i, j>> : j \in { j \in 1..(IF IsDict(data.v[i][2]) THEN Len(data.v[i][2].v) ELSE 0)
                                 : ~PyInt(data.v[i][2].v[j][1]).ok } }
            : i \in { i \in 1..Len(data.v) : PyInt(data.v[i][1]).ok } }

BadMetaKeys == { k \in 1..Len(meta_data.v) : ~PyInt(meta_data.v[k][1]).ok }

Lines == { out[n] : n \in 1..Len(out) }

CountsLeaveSkipsOut ==
    /\ user_count = Cardinality(KeyedPairs)
    /\ <<"Migrated user profiles", Cardinality(KeyedPairs)>> \in Lines
    /\ goal_count = Cardinality(GoalsSeen)
    /\ <<"Migrated daily goals", Cardinality(GoalsSeen)>> \in Lines

C9_AsClaimed ==
    (Terminal /\ Len(events) >= 1) =>
        /\ conn = "closed"
        /\ store.user_profiles = txn.user_profiles
        /\ store.daily_goals = txn.daily_goals

\* ------------------------------------------------------------------------
\* C10: the statements of a call come in the order connect, the two table
\* creations, the user_profiles upserts, the daily_goals upserts, one commit,
\* close: nothing but close follows the commit, and a call that completes has
\* issued them all.
\* ------------------------------------------------------------------------
Rank(e) ==
    CASE e = "connect" -> 1
      [] e = "create user_profiles" -> 2
      [] e = "create daily_goals" -> 3
      [] e = "upsert user_profiles" -> 4
      [] e = "upsert daily_goals" -> 5
      [] e = "commit" -> 6
      [] e = "close" -> 7

Once == {"connect", "create user_profiles", "create daily_goals", "commit", "close"}

C10_EventOrder ==
    /\ \A m \in 1..Len(events) : \A n \in 1..Len(events) :
          m < n => /\ Rank(events[m]) <= Rank(events[n])
                   /\ events[m] \in Once => events[m] # events[n]
    /\ pc = "done" =>
          /\ \A e \in Once : \E n \in 1..Len(events) : events[n] = e
          /\ Cardinality({ n \in 1..Len(events) : events[n] = "upsert user_profiles" }) = user_count
          /\ Cardinality(GoalUpserts) = goal_count

C10_Witness ==
    pc = "done" /\ user_count >= 1 /\ goal_count >= 1

====
